---- MODULE Spec2Model ----
(***************************************************************************)
(* A state-machine model of the portfolio page script (src/script.js):     *)
(* the debounce utility, the theme manager and its preference store, the   *)
(* navigation manager, the typing animation and the contact form.          *)
(*                                                                         *)
(* Timers follow the discrete-time reading of setTimeout: a timer set at   *)
(* time t with delay d is due at t + d and its callback runs at that       *)
(* instant, before any other event of the same instant.                    *)
(***************************************************************************)
EXTENDS Integers, Sequences, FiniteSets, TLC

VARIABLES
  now,          \* the clock read by setTimeout
  dbWait,       \* debounce: the wait argument
  dbTimers,     \* debounce: the timers set by the wrapper and not yet fired or cleared
  dbTimeout,    \* debounce: the closure variable `timeout` (0 = undefined)
  dbNextId,     \* the id the next setTimeout returns
  dbCalls,      \* history: the calls of executedFunction, [at, args]
  dbExecs,      \* history: the executions of func, [at, args, after]
  ty,           \* typing: the TypingAnimation object
  tyText,       \* typing: element.textContent
  tyTimer,      \* typing: delay of the pending setTimeout(() => this.type()), or NoTimer
  tyPrev,       \* history: the object as it was before the latest type() call
  tyNew,        \* history: the constructor call just made, NoNew after a timer step
  tyWriter,     \* history: the instance whose type() wrote the element last, 0 for none
  ty2,          \* a second TypingAnimation object constructed for the same element
  ty2Timer,     \* the delay of the second object's pending timer, or NoTimer
  page,         \* "loading" before DOMContentLoaded, then "ready", or "crashed" when the handler threw
  built,        \* the controllers the DOMContentLoaded handler has constructed
  store,        \* localStorage under 'portfolio-theme': <<>> when absent, else <<value>>
  storeFault,   \* which localStorage accesses throw: "none", "set" or "all"
  bodyClass,    \* document.body.className
  themeIcon,    \* className of the icon inside #theme-toggle
  themeListeners, \* number of click listeners bound to #theme-toggle
  lastSetTheme, \* history: argument of the latest setTheme call that returned
  carried,      \* history: lastSetTheme as it was when the page was last reloaded
  themeTrail,   \* history: the applied theme before and after the latest consecutive clicks
  sections,     \* the page's <section> elements in document order: [id, top, height]
  scrollY,      \* window.scrollY
  navActive,    \* per nav link: whether its classList has 'active'
  navbarHidden, \* whether the navbar's transform is translateY(-100%)
  lastScrollTop, \* the scroll handler's closure variable
  navSeenY,     \* history: scrollY at the latest run of updateActiveLink, -1 before any
  navTops,      \* history: the offsets seen by the last two runs of the scroll handler
  formValues,   \* contact form: the value of each named input
  formErrs,     \* contact form: per input, the .field-error spans in its parent
  submitDisabled, \* the submit button's disabled flag
  submitLabel,  \* the submit button's innerHTML
  formRuns,     \* the submitForm runs awaiting their promise: [data, originalText]
  formNotices,  \* number of .form-message notices in the form
  formLast,     \* history: the submit event just handled, NoSubmit after any later step
  formDone,     \* history: the submission that just settled, NoDone after any later step
  modalActive,  \* the modal overlay carries the class 'active'
  modalContent, \* what the modal's content region renders: NoContent or a project id
  bodyOverflow, \* document.body.style.overflow
  modalLast,    \* history: the modal operation performed last, NoModalOp before the first
  revealInView,  \* per element: isIntersecting of the last entry delivered for it
  revealVisible, \* per element: its class list holds 'visible'
  revealEntries, \* history, per element: entries delivered with isIntersecting true
  revealMarks,   \* history, per element: changes from not visible to visible
  skillPending,  \* 300 ms timers of animateSkillBar not yet fired
  skillWidth,    \* style.width of the skill bar's fill
  hamburgerActive, \* the hamburger carries the class 'active'
  navMenuActive,   \* the nav menu carries the class 'active'
  navClick         \* history: the nav link click just handled, NoClick after a hamburger click

dbVars == <<now, dbWait, dbTimers, dbTimeout, dbNextId, dbCalls, dbExecs>>

tyVars == <<ty, tyText, tyTimer, tyPrev, tyNew, tyWriter>>

ty2Vars == <<ty2, ty2Timer>>

pageVars == <<page, built>>

themeVars ==
  <<store, storeFault, bodyClass, themeIcon, themeListeners, lastSetTheme, carried, themeTrail>>

navVars == <<sections, scrollY, navActive, navbarHidden, lastScrollTop, navSeenY, navTops>>

formVars ==
  <<formValues, formErrs, submitDisabled, submitLabel, formRuns, formNotices, formLast,
    formDone>>

modalVars == <<modalActive, modalContent, bodyOverflow, modalLast>>

revealVars ==
  <<revealInView, revealVisible, revealEntries, revealMarks, skillPending, skillWidth>>

menuVars == <<hamburgerActive, navMenuActive, navClick>>

vars ==
  <<dbVars, tyVars, pageVars, themeVars, navVars, formVars, modalVars, revealVars, ty2Vars,
    menuVars>>

----------------------------------------------------------------------------
(* Bounds of the model *)

MaxTime == 7
MaxWait == 3
MaxCalls == 3
MaxArg == 2
MaxTexts == 2
MaxPhraseLen == 2
MaxOverrun == 2
MaxSections == 2
MaxNavTime == 30
MaxNotices == 2
MaxElements == 3
MaxEntries == 3

----------------------------------------------------------------------------
(* Helpers *)

Min(a, b) == IF a < b THEN a ELSE b

Max(a, b) == IF a > b THEN a ELSE b

Clamp(n, len) == Max(0, Min(n, len))

\* String.prototype.substring(start, end): both ends clamped into 0..length
\* and swapped when start > end.
Substring(s, start, end) ==
  LET a == Clamp(start, Len(s))
      b == Clamp(end, Len(s))
  IN SubSeq(s, Min(a, b) + 1, Max(a, b))

SeqsUpTo(S, n) == UNION {[1..k -> S] : k \in 0..n}

----------------------------------------------------------------------------
(* Debounce (src/script.js 2-12) *)

ClearTimeout(timers, id) == {t \in timers : t.id # id}

SetTimeout(timers, id, due, args) ==
  timers \cup {[id |-> id, due |-> due, args |-> args]}

\* A wrapper that forgets to cancel the pending timer before setting the next.
RescheduleKeepingPending(timers, timeout, id, due, args) ==
  SetTimeout(timers, id, due, args)

\* executedFunction, lines 9-10: clearTimeout(timeout); timeout = setTimeout(later, wait)
Reschedule(timers, timeout, id, due, args) ==
  SetTimeout(ClearTimeout(timers, timeout), id, due, args)

ExecutedFunction(args) ==
  /\ dbTimers' = Reschedule(dbTimers, dbTimeout, dbNextId, now + dbWait, args)
  /\ dbTimeout' = dbNextId
  /\ dbNextId' = dbNextId + 1

\* later, lines 5-8, for the fired timer t: clearTimeout(timeout), then func(...args).
\* The fired timer has left the timer table; args are those of the call that set it.
Later(t) == dbTimers' = ClearTimeout(dbTimers \ {t}, dbTimeout)

TimerDue == \E t \in dbTimers : t.due <= now

\* The wrapped function is called with argument a.
DebouncedCall(a) ==
  /\ ~TimerDue
  /\ Len(dbCalls) < MaxCalls
  /\ ExecutedFunction(a)
  /\ dbCalls' = Append(dbCalls, [at |-> now, args |-> a])
  /\ UNCHANGED <<now, dbWait, dbExecs, tyVars, pageVars, themeVars, navVars, formVars, modalVars, revealVars, ty2Vars, menuVars>>

\* A timer of the wrapper comes due: later() runs and calls func.
DebounceTimerFires ==
  \E t \in dbTimers :
    /\ t.due = now
    /\ Later(t)
    /\ dbExecs' = Append(dbExecs, [at |-> now, args |-> t.args, after |-> Len(dbCalls)])
    /\ UNCHANGED <<now, dbWait, dbTimeout, dbNextId, dbCalls, tyVars, pageVars, themeVars, navVars, formVars, modalVars, revealVars, ty2Vars, menuVars>>

\* d units of time pass, no timer coming due before their end.
TimePasses(d, limit) ==
  /\ now + d <= limit
  /\ \A t \in dbTimers : t.due >= now + d
  /\ now' = now + d
  /\ UNCHANGED <<dbWait, dbTimers, dbTimeout, dbNextId, dbCalls, dbExecs, tyVars, pageVars, themeVars, navVars, formVars, modalVars, revealVars, ty2Vars, menuVars>>

\* debounce(..., 10), line 101
ScrollDebounceWait == 10

DebounceInit ==
  /\ now = 0
  /\ dbTimers = {}
  /\ dbTimeout = 0
  /\ dbNextId = 1
  /\ dbCalls = <<>>
  /\ dbExecs = <<>>

----------------------------------------------------------------------------
(* Typing animation (src/script.js 133-173) *)

NoTimer == -1

DefaultTypeSpeed == 100

DefaultDeleteSpeed == 50

DefaultDelayBetweenTexts == 2000

Alphabet == {"a", "b"}

Phrases == SeqsUpTo(Alphabet, MaxPhraseLen)

TextLists == UNION {[1..k -> Phrases] : k \in 1..MaxTexts}

\* The lists a caller can pass: the empty list is one of them.
TextListsOrEmpty == TextLists \cup {<<>>}

NoNew == [called |-> FALSE, empty |-> FALSE, threw |-> FALSE]

SpeedConfigs ==
  { <<DefaultTypeSpeed, DefaultDeleteSpeed, DefaultDelayBetweenTexts>>, <<1, 1, 1>> }

NoTyping ==
  [built |-> FALSE, texts |-> <<>>, typeSpeed |-> 0, deleteSpeed |-> 0,
   delayBetweenTexts |-> 0, currentTextIndex |-> 0, currentCharIndex |-> 0,
   isDeleting |-> FALSE]

\* The constructor's field assignments, lines 135-142.
TypingFields(texts, cfg) ==
  [built |-> TRUE, texts |-> texts, typeSpeed |-> cfg[1], deleteSpeed |-> cfg[2],
   delayBetweenTexts |-> cfg[3], currentTextIndex |-> 0, currentCharIndex |-> 0,
   isDeleting |-> FALSE]

CurrentText(t) == t.texts[t.currentTextIndex + 1]

\* this.texts[this.currentTextIndex] is undefined: the index is not one of the list's.
NoCurrentText(t) == t.currentTextIndex + 1 \notin DOMAIN t.texts

\* type() that clamps the advanced phrase index instead of wrapping it.
TypeNoWrap(t) ==
  LET currentText == CurrentText(t)
      text == IF t.isDeleting
                THEN Substring(currentText, 0, t.currentCharIndex - 1)
                ELSE Substring(currentText, 0, t.currentCharIndex + 1)
      idx == IF t.isDeleting THEN t.currentCharIndex - 1 ELSE t.currentCharIndex + 1
      speed == IF t.isDeleting THEN t.deleteSpeed ELSE t.typeSpeed
  IN IF NoCurrentText(t)
       THEN [obj |-> t, threw |-> TRUE, text |-> <<>>, delay |-> NoTimer]
     ELSE IF ~t.isDeleting /\ idx = Len(currentText)
       THEN [obj |-> [t EXCEPT !.currentCharIndex = idx, !.isDeleting = TRUE],
             threw |-> FALSE, text |-> text, delay |-> t.delayBetweenTexts]
     ELSE IF t.isDeleting /\ idx = 0
       THEN [obj |-> [t EXCEPT !.currentCharIndex = idx, !.isDeleting = FALSE,
                               !.currentTextIndex =
                                  Min(t.currentTextIndex + 1, Len(t.texts) - 1)],
             threw |-> FALSE, text |-> text, delay |-> speed]
     ELSE [obj |-> [t EXCEPT !.currentCharIndex = idx], threw |-> FALSE,
           text |-> text, delay |-> speed]

\* type(), lines 150-172: the object after the call, the text it renders and the
\* delay of the setTimeout it ends with. When the current text is undefined,
\* currentText.substring (line 156) throws a TypeError before anything is
\* rendered or scheduled.
Type(t) ==
  LET currentText == CurrentText(t)
      text == IF t.isDeleting
                THEN Substring(currentText, 0, t.currentCharIndex - 1)
                ELSE Substring(currentText, 0, t.currentCharIndex + 1)
      idx == IF t.isDeleting THEN t.currentCharIndex - 1 ELSE t.currentCharIndex + 1
      speed == IF t.isDeleting THEN t.deleteSpeed ELSE t.typeSpeed
  IN IF NoCurrentText(t)
       THEN [obj |-> t, threw |-> TRUE, text |-> <<>>, delay |-> NoTimer]
     ELSE IF ~t.isDeleting /\ idx = Len(currentText)
       THEN [obj |-> [t EXCEPT !.currentCharIndex = idx, !.isDeleting = TRUE],
             threw |-> FALSE, text |-> text, delay |-> t.delayBetweenTexts]
     ELSE IF t.isDeleting /\ idx = 0
       THEN [obj |-> [t EXCEPT !.currentCharIndex = idx, !.isDeleting = FALSE,
                               !.currentTextIndex =
                                  (t.currentTextIndex + 1) % Len(t.texts)],
             threw |-> FALSE, text |-> text, delay |-> speed]
     ELSE [obj |-> [t EXCEPT !.currentCharIndex = idx], threw |-> FALSE,
           text |-> text, delay |-> speed]

\* One call of type() on object t: the fields, the element and the timer after it.
\* A call that throws out of the constructor yields no object.
TypeEffect(t, new) ==
  LET r == Type(t)
  IN /\ ty' = IF r.threw THEN ty ELSE r.obj
     /\ tyText' = IF r.threw THEN tyText ELSE r.text
     /\ tyTimer' = IF r.threw THEN tyTimer ELSE r.delay
     /\ tyPrev' = IF r.threw THEN tyPrev ELSE t
     /\ tyNew' = [called |-> new, empty |-> new /\ t.texts = <<>>, threw |-> r.threw]
     /\ tyWriter' = IF r.threw THEN tyWriter ELSE 1

\* new TypingAnimation(element, texts, ...cfg): the constructor runs init(), which
\* runs the first type().
NewTypingAnimation(texts, cfg) ==
  /\ ~ty.built
  /\ TypeEffect(TypingFields(texts, cfg), TRUE)
  /\ UNCHANGED <<dbVars, pageVars, themeVars, navVars, formVars, modalVars, revealVars, ty2Vars, menuVars>>

\* The pending timer fires: () => this.type().
TypingTimerFires ==
  /\ ty.built
  /\ tyTimer # NoTimer
  /\ ty.currentCharIndex < Len(CurrentText(ty)) + MaxOverrun
  /\ TypeEffect(ty, FALSE)
  /\ UNCHANGED <<dbVars, pageVars, themeVars, navVars, formVars, modalVars, revealVars, ty2Vars, menuVars>>

\* new TypingAnimation(element, texts, ...cfg) once more, for the element that
\* the first object animates. The constructor reads and writes nothing of the
\* first object: no timer handle is kept (line 171 drops setTimeout's result),
\* so the first object's pending timer stays pending.
NewSecondTypingAnimation(texts, cfg) ==
  /\ ty.built
  /\ ~ty2.built
  /\ LET r == Type(TypingFields(texts, cfg))
     IN /\ ~r.threw
        /\ ty2' = r.obj
        /\ tyText' = r.text
        /\ ty2Timer' = r.delay
        /\ tyWriter' = 2
  /\ UNCHANGED <<ty, tyTimer, tyPrev, tyNew>>
  /\ UNCHANGED <<dbVars, pageVars, themeVars, navVars, formVars, modalVars, revealVars, menuVars>>

\* The second object's pending timer fires: () => this.type().
SecondTimerFires ==
  /\ ty2.built
  /\ ty2Timer # NoTimer
  /\ ty2.currentCharIndex < Len(CurrentText(ty2)) + MaxOverrun
  /\ LET r == Type(ty2)
     IN /\ ty2' = r.obj
        /\ tyText' = r.text
        /\ ty2Timer' = r.delay
        /\ tyWriter' = 2
  /\ UNCHANGED <<ty, tyTimer, tyPrev, tyNew>>
  /\ UNCHANGED <<dbVars, pageVars, themeVars, navVars, formVars, modalVars, revealVars, menuVars>>

TypingInit ==
  /\ ty2 = NoTyping
  /\ ty2Timer = NoTimer
  /\ tyWriter = 0
  /\ ty = NoTyping
  /\ tyText = <<>>
  /\ tyTimer = NoTimer
  /\ tyPrev = NoTyping
  /\ tyNew = NoNew

----------------------------------------------------------------------------
(* Theme manager and preference store (src/script.js 15-44) *)

StoredValues == {"light", "dark", "", "blue"}

StoreFaults == {"none", "set", "all"}

\* localStorage.getItem('portfolio-theme') || 'light': null and "" are falsy.
SavedTheme(st) == IF st = <<>> \/ st[1] = "" THEN "light" ELSE st[1]

\* classList.contains('dark-theme') ? 'dark' : 'light', line 39.
AppliedTheme(cls) == IF cls = "dark-theme" THEN "dark" ELSE "light"

\* setTheme that writes the light theme to the store whatever it applied.
SetThemePersistsLight(theme, st, fault) ==
  LET cls == IF theme = "dark" THEN "dark-theme" ELSE ""
  IN IF fault # "none"
       THEN [threw |-> TRUE, bodyClass |-> cls, store |-> st.store, icon |-> st.icon]
       ELSE [threw |-> FALSE, bodyClass |-> cls, store |-> <<"light">>,
             icon |-> IF theme = "dark" THEN "fas fa-sun" ELSE "fas fa-moon"]

\* setTheme that applies the dark class for every theme.
SetThemeAlwaysDark(theme, st, fault) ==
  IF fault # "none"
    THEN [threw |-> TRUE, bodyClass |-> "dark-theme", store |-> st.store, icon |-> st.icon]
    ELSE [threw |-> FALSE, bodyClass |-> "dark-theme", store |-> <<theme>>,
          icon |-> IF theme = "dark" THEN "fas fa-sun" ELSE "fas fa-moon"]

\* setTheme(theme), lines 26-30, on st = [bodyClass, store, icon]: the class is
\* assigned first, then localStorage.setItem runs (and throws when the store
\* cannot be written), then the icon is updated.
SetTheme(theme, st, fault) ==
  LET cls == IF theme = "dark" THEN "dark-theme" ELSE ""
  IN IF fault # "none"
       THEN [threw |-> TRUE, bodyClass |-> cls, store |-> st.store, icon |-> st.icon]
       ELSE [threw |-> FALSE, bodyClass |-> cls, store |-> <<theme>>,
             icon |-> IF theme = "dark" THEN "fas fa-sun" ELSE "fas fa-moon"]

ThemeState == [bodyClass |-> bodyClass, store |-> store, icon |-> themeIcon]

\* new ThemeManager(): init(), lines 20-24. getItem throws when the store cannot
\* be read; an exception of setTheme leaves bindEvents undone. The result carries
\* the theme passed to setTheme.
ThemeManagerInit(st, fault) ==
  IF fault = "all"
    THEN [threw |-> TRUE, bodyClass |-> st.bodyClass, store |-> st.store,
          icon |-> st.icon, listeners |-> 0, theme |-> "none"]
    ELSE LET savedTheme == SavedTheme(st.store)
             r == SetTheme(savedTheme, st, fault)
         IN [threw |-> r.threw, bodyClass |-> r.bodyClass, store |-> r.store,
             icon |-> r.icon, listeners |-> IF r.threw THEN 0 ELSE 1,
             theme |-> savedTheme]

\* The part of the DOMContentLoaded handler that constructs the ThemeManager.
NewThemeManager ==
  LET r == ThemeManagerInit(ThemeState, storeFault)
  IN /\ bodyClass' = r.bodyClass
     /\ store' = r.store
     /\ themeIcon' = r.icon
     /\ themeListeners' = r.listeners
     /\ lastSetTheme' = IF r.threw THEN lastSetTheme ELSE r.theme
     /\ themeTrail' = <<AppliedTheme(r.bodyClass)>>
     /\ UNCHANGED <<storeFault, carried>>

LastTwo(s) == IF Len(s) > 2 THEN SubSeq(s, Len(s) - 1, Len(s)) ELSE s

\* A click on #theme-toggle, lines 38-42, when the listener is bound.
ThemeToggleClick ==
  /\ themeListeners > 0
  /\ LET currentTheme == AppliedTheme(bodyClass)
         newTheme == IF currentTheme = "dark" THEN "light" ELSE "dark"
         r == SetTheme(newTheme, ThemeState, storeFault)
     IN /\ bodyClass' = r.bodyClass
        /\ store' = r.store
        /\ themeIcon' = r.icon
        /\ lastSetTheme' = IF r.threw THEN lastSetTheme ELSE newTheme
        /\ themeTrail' = Append(LastTwo(themeTrail), AppliedTheme(r.bodyClass))
  /\ UNCHANGED <<storeFault, carried, themeListeners, pageVars, dbVars, tyVars, navVars, formVars, modalVars, revealVars, ty2Vars, menuVars>>

\* The browser starts or stops refusing access to localStorage.
StorageAccessChanges(f) ==
  /\ f # storeFault
  /\ storeFault' = f
  /\ UNCHANGED <<store, bodyClass, themeIcon, themeListeners, lastSetTheme, carried,
                 themeTrail, pageVars, dbVars, tyVars, navVars, formVars, modalVars, revealVars, ty2Vars, menuVars>>

ThemeInit ==
  /\ bodyClass = ""
  /\ themeIcon = "fas fa-moon"
  /\ themeListeners = 0
  /\ lastSetTheme = "none"
  /\ carried = "none"
  /\ themeTrail = <<>>

----------------------------------------------------------------------------
(* Navigation manager (src/script.js 47-130) *)

Tops == {0, 500}

Heights == {500, 1000}

\* A negative offset is what window.pageYOffset reports while the page is
\* dragged beyond its top.
ScrollPositions == {-50, 0, 350, 600, 1450}

Layouts ==
  UNION {[1..k -> [top : Tops, height : Heights]] : k \in 1..MaxSections}

\* An href that document.querySelector rejects as a selector, such as "#" or an
\* address like "/blog" or "https://example.org".
InvalidHref == -1

\* The nav links: link k (k <= MaxSections) has href "#k", the id of the k-th
\* section; the next link's href is a valid selector that names no section; the
\* last link's href is not a selector.
NumLinks == MaxSections + 2

Href(k) == IF k <= MaxSections THEN k ELSE IF k = MaxSections + 1 THEN 0 ELSE InvalidHref

Links == 1..NumLinks

NoClick == [seen |-> FALSE, link |-> 0, threw |-> FALSE, found |-> 0, scrollBefore |-> 0,
            menuBefore |-> FALSE]

\* The 'active' classes the markup gives the links before any script runs.
HtmlActive == [k \in Links |-> k = 1]

SectionsOf(layout) ==
  [i \in 1..Len(layout) |-> [id |-> i, top |-> layout[i].top, height |-> layout[i].height]]

\* The test of line 120.
InSection(scrollPosition, section) ==
  /\ scrollPosition >= section.top
  /\ scrollPosition < section.top + section.height

\* updateActiveLink that marks the matching link without unmarking the others.
MarkLinksKeepingOthers(active, sectionId) ==
  [k \in Links |-> active[k] \/ Href(k) = sectionId]

\* Lines 121-126 for one matching section: every link loses 'active', the links
\* whose href is "#" + sectionId get it.
MarkLinks(active, sectionId) ==
  [k \in Links |-> Href(k) = sectionId]

RECURSIVE UpdateFrom(_, _, _, _)
\* The forEach of lines 115-128 from section i on.
UpdateFrom(active, sects, i, scrollPosition) ==
  IF i > Len(sects)
    THEN active
    ELSE UpdateFrom(IF InSection(scrollPosition, sects[i])
                      THEN MarkLinks(active, sects[i].id)
                      ELSE active,
                    sects, i + 1, scrollPosition)

\* updateActiveLink that unmarks every link when no section matches.
UpdateActiveLinkClearing(active, sects, y) ==
  IF \E i \in DOMAIN sects : InSection(y + 100, sects[i])
    THEN UpdateFrom(active, sects, 1, y + 100)
    ELSE [k \in Links |-> FALSE]

\* updateActiveLink(), lines 112-129.
UpdateActiveLink(active, sects, y) == UpdateFrom(active, sects, 1, y + 100)

\* new NavigationManager(): bindEvents() creates the debounced scroll handler and
\* init() runs updateActiveLink() once.
NewNavigationManager ==
  /\ navActive' = UpdateActiveLink(navActive, sections, scrollY)
  /\ navSeenY' = scrollY
  /\ dbTimers' = {}
  /\ dbTimeout' = 0
  /\ UNCHANGED <<sections, scrollY, navbarHidden, lastScrollTop, navTops>>
  /\ UNCHANGED <<now, dbWait, dbNextId, dbCalls, dbExecs>>

NavUntouched ==
  /\ UNCHANGED navVars
  /\ UNCHANGED dbVars

\* The window is scrolled to offset y; the scroll event reaches the debounced
\* handler when the NavigationManager has bound it.
WindowScroll(y) ==
  /\ y # scrollY
  /\ ~TimerDue
  /\ dbNextId <= MaxCalls
  /\ scrollY' = y
  /\ IF "navigation" \in built
       THEN ExecutedFunction(y)
       ELSE UNCHANGED <<dbTimers, dbTimeout, dbNextId>>
  /\ UNCHANGED <<now, dbWait, dbCalls, dbExecs>>
  /\ UNCHANGED <<sections, navActive, navbarHidden, lastScrollTop, navSeenY, navTops>>
  /\ UNCHANGED <<tyVars, pageVars, themeVars, formVars, modalVars, revealVars, ty2Vars, menuVars>>

\* The handler that hides the navbar past the threshold whatever the direction.
NavbarOnScrollAnyDirection(scrollTop, last) ==
  [hidden |-> scrollTop > 100,
   lastScrollTop |-> IF scrollTop <= 0 THEN 0 ELSE scrollTop]

\* Lines 90-94 and 99 of the scroll handler: the navbar's transform and the
\* offset kept in the closure variable lastScrollTop.
NavbarOnScroll(scrollTop, last) ==
  [hidden |-> scrollTop > last /\ scrollTop > 100,
   lastScrollTop |-> IF scrollTop <= 0 THEN 0 ELSE scrollTop]

\* The debounced scroll handler runs, lines 87-101.
ScrollTimerFires ==
  \E t \in dbTimers :
    /\ t.due = now
    /\ Later(t)
    /\ LET scrollTop == scrollY
           r == NavbarOnScroll(scrollTop, lastScrollTop)
       IN /\ navbarHidden' = r.hidden
          /\ navActive' = UpdateActiveLink(navActive, sections, scrollY)
          /\ navSeenY' = scrollY
          /\ lastScrollTop' = r.lastScrollTop
          /\ navTops' = IF navTops = <<>> THEN <<scrollTop>>
                        ELSE <<navTops[Len(navTops)], scrollTop>>
    /\ UNCHANGED <<now, dbWait, dbTimeout, dbNextId, dbCalls, dbExecs>>
    /\ UNCHANGED <<sections, scrollY>>
    /\ UNCHANGED <<tyVars, pageVars, themeVars, formVars, modalVars, revealVars, ty2Vars, menuVars>>

\* The hamburger's click listener, lines 64-67.
HamburgerClick ==
  /\ "navigation" \in built
  /\ ~TimerDue
  /\ hamburgerActive' = ~hamburgerActive
  /\ navMenuActive' = ~navMenuActive
  /\ navClick' = NoClick
  /\ UNCHANGED <<dbVars, tyVars, pageVars, themeVars, navVars, formVars, modalVars,
                 revealVars, ty2Vars>>

\* document.querySelector(targetId), line 74: a SyntaxError for an href that is
\* not a selector, the section with that id, or null.
QuerySelector(href, sects) ==
  IF href = InvalidHref THEN [threw |-> TRUE, found |-> 0]
  ELSE IF \E i \in DOMAIN sects : sects[i].id = href
    THEN [threw |-> FALSE, found |-> CHOOSE i \in DOMAIN sects : sects[i].id = href]
  ELSE [threw |-> FALSE, found |-> 0]

\* scrollToSection, lines 104-110: the offset the window is scrolled to.
ScrollTarget(section) == Max(0, section.top - 80)

\* The classes of the hamburger and the menu after the link's click listener,
\* lines 71-82: an exception of line 74 ends the listener before lines 80-81.
LinkClickMenu(q, menu) ==
  IF q.threw THEN menu ELSE [hamburger |-> FALSE, navMenu |-> FALSE]

\* A click on nav link k, lines 71-82. The smooth scroll is taken as one jump,
\* which the window reports with a scroll event.
LinkClick(k) ==
  /\ "navigation" \in built
  /\ ~TimerDue
  /\ LET q == QuerySelector(Href(k), sections)
         y == IF q.threw \/ q.found = 0 THEN scrollY ELSE ScrollTarget(sections[q.found])
         menu == LinkClickMenu(q, [hamburger |-> hamburgerActive, navMenu |-> navMenuActive])
     IN /\ y # scrollY => dbNextId <= MaxCalls
        /\ scrollY' = y
        /\ IF y # scrollY
             THEN ExecutedFunction(y)
             ELSE UNCHANGED <<dbTimers, dbTimeout, dbNextId>>
        /\ hamburgerActive' = menu.hamburger
        /\ navMenuActive' = menu.navMenu
        /\ navClick' = [seen |-> TRUE, link |-> k, threw |-> q.threw, found |-> q.found,
                        scrollBefore |-> scrollY, menuBefore |-> navMenuActive]
  /\ UNCHANGED <<now, dbWait, dbCalls, dbExecs>>
  /\ UNCHANGED <<sections, navActive, navbarHidden, lastScrollTop, navSeenY, navTops>>
  /\ UNCHANGED <<tyVars, pageVars, themeVars, formVars, modalVars, revealVars, ty2Vars>>

MenuInit ==
  /\ hamburgerActive = FALSE
  /\ navMenuActive = FALSE
  /\ navClick = NoClick

NavTimeSteps == {5, 10}

NavInit ==
  /\ scrollY = 0
  /\ navActive = HtmlActive
  /\ navbarHidden = FALSE
  /\ lastScrollTop = 0
  /\ navSeenY = -1
  /\ navTops = <<>>

DefaultLayout == <<[top |-> 0, height |-> 500], [top |-> 500, height |-> 500]>>

----------------------------------------------------------------------------
(* Contact form (src/script.js 400-572) *)

Fields == <<"name", "email", "subject", "message">>

FieldNames == {Fields[i] : i \in 1..Len(Fields)}

Whitespace == {" "}

NameSamples == {<<"A">>, <<"A","l">>, <<" ","A"," ">>}

EmailSamples ==
  {<<"b","a","d">>, <<"a","@","b",".","c","o">>, <<"a","@","b">>,
   <<"a"," ","b","@","c",".","d">>, <<" ","a","@","b",".","c","o"," ">>,
   <<"a","@",".","c","o">>}

SubjectSamples ==
  {<<"h","i">>, <<"h","i"," "," "," ">>,
   <<"H","e","l","l","o"," ","t","h","e","r","e">>}

MessageSamples ==
  {<<"s","h","o","r","t">>, <<"s","h","o","r","t"," "," "," "," "," ">>,
   <<"t","e","n"," ","c","h","a","r","s","!">>,
   <<"T","h","i","s"," ","i","s"," ","l","o","n","g"," ","e","n","o","u","g","h">>}

SamplesOf(f) ==
  CASE f = "name" -> NameSamples
    [] f = "email" -> EmailSamples
    [] f = "subject" -> SubjectSamples
    [] f = "message" -> MessageSamples

EmptyForm == [f \in FieldNames |-> <<>>]

SendLabel == "Send Message"

SendingLabel == "<i class=\"fas fa-spinner fa-spin\"></i> Sending..."

NoSubmit ==
  [seen |-> FALSE, values |-> EmptyForm, valid |-> FALSE,
   errs |-> [f \in FieldNames |-> <<>>], started |-> FALSE, disabledAfter |-> FALSE,
   labelAfter |-> SendLabel, valuesAfter |-> EmptyForm, blocked |-> FALSE]

NoDone == [seen |-> FALSE, outcome |-> "none", notice |-> "none", reset |-> FALSE]

RECURSIVE TrimStart(_)
TrimStart(v) == IF v # <<>> /\ Head(v) \in Whitespace THEN TrimStart(Tail(v)) ELSE v

RECURSIVE TrimEnd(_)
TrimEnd(v) ==
  IF v # <<>> /\ v[Len(v)] \in Whitespace THEN TrimEnd(SubSeq(v, 1, Len(v) - 1)) ELSE v

\* String.prototype.trim()
Trim(v) == TrimEnd(TrimStart(v))

\* v[lo..hi] matches [^\s@]+
IsWord(v, lo, hi) ==
  /\ lo <= hi
  /\ \A i \in lo..hi : v[i] \notin Whitespace \cup {"@"}

\* /^[^\s@]+@[^\s@]+\.[^\s@]+$/.test(v), line 463
EmailRegexTest(v) ==
  \E a \in 1..Len(v) : \E d \in (a + 1)..Len(v) :
    /\ v[a] = "@"
    /\ v[d] = "."
    /\ IsWord(v, 1, a - 1)
    /\ IsWord(v, a + 1, d - 1)
    /\ IsWord(v, d + 1, Len(v))

\* clearFieldError, lines 502-508: the first .field-error of the parent is removed.
ClearFieldError(errs) == IF errs = <<>> THEN <<>> ELSE Tail(errs)

\* showFieldError, lines 488-500: a span is appended to the parent.
ShowFieldError(errs, message) == Append(errs, message)

\* The switch of lines 456-478: the error message for the trimmed value, "" if none.
ErrorMessage(fieldName, value) ==
  CASE fieldName = "name" ->
         IF Len(value) < 2 THEN "Name must be at least 2 characters long" ELSE ""
    [] fieldName = "email" ->
         IF ~EmailRegexTest(value) THEN "Please enter a valid email address" ELSE ""
    [] fieldName = "subject" ->
         IF Len(value) < 5 THEN "Subject must be at least 5 characters long" ELSE ""
    [] fieldName = "message" ->
         IF Len(value) < 10 THEN "Message must be at least 10 characters long" ELSE ""
    [] OTHER -> ""

\* validateField(input), lines 447-486, on the input's value and the error spans
\* of its parent: the verdict and the spans afterwards.
ValidateField(fieldName, rawValue, errs) ==
  LET value == Trim(rawValue)
      cleared == ClearFieldError(errs)
      errorMessage == ErrorMessage(fieldName, value)
  IN IF errorMessage # ""
       THEN [valid |-> FALSE, errs |-> ShowFieldError(cleared, errorMessage)]
       ELSE [valid |-> TRUE, errs |-> cleared]

RECURSIVE ValidateFromShortCircuit(_, _, _, _)
\* A loop that stops at the first failing field.
ValidateFromShortCircuit(i, values, errs, isValid) ==
  IF i > Len(Fields) \/ ~isValid
    THEN [valid |-> isValid, errs |-> errs]
    ELSE LET r == ValidateField(Fields[i], values[Fields[i]], errs[Fields[i]])
         IN ValidateFromShortCircuit(i + 1, values, [errs EXCEPT ![Fields[i]] = r.errs],
                                     isValid /\ r.valid)

RECURSIVE ValidateFromLastWins(_, _, _, _)
\* A loop whose verdict is that of the field validated last.
ValidateFromLastWins(i, values, errs, isValid) ==
  IF i > Len(Fields)
    THEN [valid |-> isValid, errs |-> errs]
    ELSE LET r == ValidateField(Fields[i], values[Fields[i]], errs[Fields[i]])
         IN ValidateFromLastWins(i + 1, values, [errs EXCEPT ![Fields[i]] = r.errs],
                                 r.valid)

RECURSIVE ValidateFrom(_, _, _, _)
\* The forEach of lines 437-442 from field i on.
ValidateFrom(i, values, errs, isValid) ==
  IF i > Len(Fields)
    THEN [valid |-> isValid, errs |-> errs]
    ELSE LET r == ValidateField(Fields[i], values[Fields[i]], errs[Fields[i]])
         IN ValidateFrom(i + 1, values, [errs EXCEPT ![Fields[i]] = r.errs],
                         isValid /\ r.valid)

\* validateForm(data), lines 433-445: every field is validated from its input.
ValidateForm(values, errs) == ValidateFrom(1, values, errs, TRUE)

\* The user types value v into field f: the input event clears the field's error.
UserInput(f, v) ==
  /\ "form" \in built
  /\ formValues[f] # v
  /\ formValues' = [formValues EXCEPT ![f] = v]
  /\ formErrs' = [formErrs EXCEPT ![f] = ClearFieldError(formErrs[f])]
  /\ formLast' = NoSubmit
  /\ formDone' = NoDone
  /\ UNCHANGED <<submitDisabled, submitLabel, formRuns, formNotices>>
  /\ UNCHANGED <<dbVars, tyVars, pageVars, themeVars, navVars, modalVars, revealVars, ty2Vars, menuVars>>

\* Field f loses the focus: the blur listener validates it.
Blur(f) ==
  /\ "form" \in built
  /\ formErrs' = [formErrs EXCEPT ![f] = ValidateField(f, formValues[f], formErrs[f]).errs]
  /\ formLast' = NoSubmit
  /\ formDone' = NoDone
  /\ UNCHANGED <<formValues, submitDisabled, submitLabel, formRuns, formNotices>>
  /\ UNCHANGED <<dbVars, tyVars, pageVars, themeVars, navVars, modalVars, revealVars, ty2Vars, menuVars>>

\* The mutation of SubmitFormStart that leaves the submit control enabled.
SubmitFormStartEnabled(label) ==
  [disabled |-> FALSE, label |-> SendingLabel, originalText |-> label]

\* submitForm up to its await, lines 510-516: the label is remembered, the
\* loading label is shown and the submit control is disabled.
SubmitFormStart(label) ==
  [disabled |-> TRUE, label |-> SendingLabel, originalText |-> label]

\* The form's submit event, lines 411-431 and 510-516. The browser fires it from
\* the submit button or from implicit submission, neither of which acts while the
\* button is disabled. handleSubmit validates and, when valid, submitForm runs up
\* to its await.
SubmitEvent ==
  /\ "form" \in built
  /\ ~submitDisabled
  /\ formNotices + Len(formRuns) < MaxNotices
  /\ LET r == ValidateForm(formValues, formErrs)
         st == SubmitFormStart(submitLabel)
         label == IF r.valid THEN st.label ELSE submitLabel
         disabled == IF r.valid THEN st.disabled ELSE submitDisabled
     IN /\ formErrs' = r.errs
        /\ submitLabel' = label
        /\ submitDisabled' = disabled
        /\ formRuns' = IF r.valid
                         THEN Append(formRuns, [data |-> formValues,
                                                originalText |-> st.originalText])
                         ELSE formRuns
        /\ formLast' = [seen |-> TRUE, values |-> formValues, valid |-> r.valid,
                        errs |-> r.errs, started |-> r.valid,
                        disabledAfter |-> disabled, labelAfter |-> label,
                        valuesAfter |-> formValues, blocked |-> FALSE]
  /\ formDone' = NoDone
  /\ UNCHANGED <<formValues, formNotices>>
  /\ UNCHANGED <<dbVars, tyVars, pageVars, themeVars, navVars, modalVars, revealVars, ty2Vars, menuVars>>

\* The user activates the submit control, or presses Enter in a field, while the
\* control is disabled: the browser dispatches no submit event, so the listener
\* of lines 411-414 does not run and nothing but the record of the attempt changes.
SubmitWhileDisabled ==
  /\ "form" \in built
  /\ submitDisabled
  /\ ~formLast.blocked
  /\ formLast' = [NoSubmit EXCEPT !.blocked = TRUE]
  /\ formDone' = NoDone
  /\ UNCHANGED <<formValues, formErrs, submitDisabled, submitLabel, formRuns, formNotices>>
  /\ UNCHANGED <<dbVars, tyVars, pageVars, themeVars, navVars, modalVars, revealVars, ty2Vars, menuVars>>

\* The ways the promise awaited at line 520 settles: its executor only ever
\* calls resolve, from a timer callback, so it never rejects.
AwaitOutcomes == {"resolved"}

\* The mutation of SubmitFormFinish without the finally block.
SubmitFormFinishNoFinally(run, outcome) ==
  [notice   |-> IF outcome = "resolved" THEN "success" ELSE "error",
   reset    |-> outcome = "resolved",
   label    |-> SendingLabel,
   disabled |-> TRUE]

\* submitForm after its await, lines 522-532: on success the success notice and
\* form.reset(); on failure the error notice and no reset; in both cases the
\* finally block restores the remembered label and enables the control.
SubmitFormFinish(run, outcome) ==
  [notice   |-> IF outcome = "resolved" THEN "success" ELSE "error",
   reset    |-> outcome = "resolved",
   label    |-> run.originalText,
   disabled |-> FALSE]

\* The awaited promise of the oldest run settles with outcome o and the run
\* resumes to its end.
SubmissionSettles(o) ==
  /\ formRuns # <<>>
  /\ o \in AwaitOutcomes
  /\ LET f == SubmitFormFinish(Head(formRuns), o)
     IN /\ formNotices' = formNotices + 1
        /\ formValues' = IF f.reset THEN EmptyForm ELSE formValues
        /\ submitLabel' = f.label
        /\ submitDisabled' = f.disabled
        /\ formDone' = [seen |-> TRUE, outcome |-> o, notice |-> f.notice,
                        reset |-> f.reset]
  /\ formRuns' = Tail(formRuns)
  /\ formLast' = NoSubmit
  /\ UNCHANGED formErrs
  /\ UNCHANGED <<dbVars, tyVars, pageVars, themeVars, navVars, modalVars, revealVars, ty2Vars, menuVars>>

\* The 2000 ms timer of line 520 fires: the promise settles.
SubmissionCompletes == \E o \in AwaitOutcomes : SubmissionSettles(o)

\* The 5000 ms timer of a notice fires: message.remove(), lines 551 and 570.
NoticeExpires ==
  /\ formNotices > 0
  /\ formNotices' = formNotices - 1
  /\ formLast' = NoSubmit
  /\ formDone' = NoDone
  /\ UNCHANGED <<formValues, formErrs, submitDisabled, submitLabel, formRuns>>
  /\ UNCHANGED <<dbVars, tyVars, pageVars, themeVars, navVars, modalVars, revealVars, ty2Vars, menuVars>>

FormInit ==
  /\ formValues = EmptyForm
  /\ formErrs = [f \in FieldNames |-> <<>>]
  /\ submitDisabled = FALSE
  /\ submitLabel = SendLabel
  /\ formRuns = <<>>
  /\ formNotices = 0
  /\ formLast = NoSubmit
  /\ formDone = NoDone

----------------------------------------------------------------------------
(* ProjectModalManager (src/script.js 231-397, 605-611) *)

\* The keys of the object literal returned by getProjectData, lines 317-396.
\* A property key is a string: openModal(1) and openModal("1") read the same key.
CatalogIds == {"1", "2", "3", "4"}

\* Keys that the catalog object does not own but inherits from Object.prototype.
InheritedKeys == {"constructor"}

\* The ids the two global entry points are called with.
ModalIds == CatalogIds \cup InheritedKeys \cup {"999"}

NoContent == "none"

\* this.projects[projectId], line 260: an own record, a value found on the
\* prototype chain, or undefined.
Lookup(id) ==
  IF id \in CatalogIds THEN "record"
  ELSE IF id \in InheritedKeys THEN "inherited"
  ELSE "undefined"

ModalState == [active |-> modalActive, content |-> modalContent, overflow |-> bodyOverflow]

NoModalOp == [op |-> "none", id |-> "none", threw |-> FALSE,
              before |-> [active |-> FALSE, content |-> NoContent, overflow |-> ""]]

\* openModal(projectId), lines 259-266. An undefined lookup returns early. An
\* inherited value is truthy and has no technologies array, so the template of
\* generateModalContent (line 284) throws a TypeError before anything is assigned.
OpenModal(id, st) ==
  IF Lookup(id) = "undefined" THEN [threw |-> FALSE, st |-> st]
  ELSE IF Lookup(id) = "inherited" THEN [threw |-> TRUE, st |-> st]
  ELSE [threw |-> FALSE,
        st |-> [active |-> TRUE, content |-> id, overflow |-> "hidden"]]

\* The mutation of CloseModal that leaves the page scroll suspended.
CloseModalKeepingLock(st) == [st EXCEPT !.active = FALSE]

\* closeModal(), lines 268-271.
CloseModal(st) == [st EXCEPT !.active = FALSE, !.overflow = ""]

ModalEffect(op, id, threw, st) ==
  /\ modalActive' = st.active
  /\ modalContent' = st.content
  /\ bodyOverflow' = st.overflow
  /\ modalLast' = [op |-> op, id |-> id, threw |-> threw, before |-> ModalState]
  /\ UNCHANGED <<dbVars, tyVars, pageVars, themeVars, navVars, formVars, revealVars, ty2Vars, menuVars>>

\* window.openProjectModal(projectId), lines 605-607.
OpenProjectModal(id) ==
  /\ "modal" \in built
  /\ LET r == OpenModal(id, ModalState)
     IN ModalEffect("open", id, r.threw, r.st)

\* window.closeProjectModal(), lines 609-611.
CloseProjectModal ==
  /\ "modal" \in built
  /\ ModalEffect("close", "none", FALSE, CloseModal(ModalState))

ModalKeys == {"Escape", "Enter"}

\* The body of the keydown listener, lines 253-255.
OnKeyDown(key, st) == IF key = "Escape" /\ st.active THEN CloseModal(st) ELSE st

\* The keydown listener of the document, lines 252-256.
KeyDown(key) ==
  /\ "modal" \in built
  /\ ModalEffect("key", key, FALSE, OnKeyDown(key, ModalState))

ClickTargets == {"overlay", "content"}

\* The click listener that closes on every click it receives.
OnOverlayClickAnywhere(target, st) == CloseModal(st)

\* The body of the overlay's click listener, lines 246-248: e.target is the
\* overlay only for a click on the backdrop itself.
OnOverlayClick(target, st) == IF target = "overlay" THEN CloseModal(st) ELSE st

\* The click listener of the overlay, lines 245-249: a click on the overlay
\* itself (the backdrop) closes, a click inside the content bubbles up and does not.
\* The overlay is displayed, and so clickable, only while it is active.
ModalClick(target) ==
  /\ "modal" \in built
  /\ modalActive
  /\ ModalEffect("click", target, FALSE, OnOverlayClick(target, ModalState))

ModalInit ==
  /\ modalActive = FALSE
  /\ modalContent = NoContent
  /\ bodyOverflow = ""
  /\ modalLast = NoModalOp

----------------------------------------------------------------------------
(* AnimationObserver (src/script.js 176-228, 579, 594-602) *)

RevealElements == 1..MaxElements

\* Element 1 is a skill bar with its fill. Element 2 carries no marker class in
\* the markup and is given 'fade-in' by lines 595-596, after the observer was
\* constructed at line 579. The others carry 'fade-in' in the markup.
ElementKind(e) == IF e = 1 THEN "skill-bar" ELSE IF e = 2 THEN "late" ELSE "fade-in"

\* observeElements, lines 204-218, run from the constructor: the elements that
\* match a marker selector at that moment are observed.
Observed(e) == "reveal" \in built /\ ElementKind(e) # "late"

NoWidth == "0"
TargetWidth == "data-width"

\* The mutation of OnEntry that follows isIntersecting in both directions.
OnEntryToggling(visible, isIntersecting) == isIntersecting

\* The observer callback for one entry, lines 189-191: classList.add('visible')
\* when the entry intersects, nothing otherwise.
OnEntry(visible, isIntersecting) == visible \/ isIntersecting

\* The observer delivers an entry for element e whose isIntersecting is b: the
\* element crossed the threshold, lines 188-199. For a skill bar that enters,
\* animateSkillBar starts a 300 ms timer, lines 220-227.
IntersectionChange(e, b) ==
  /\ Observed(e)
  /\ b # revealInView[e]
  /\ b => revealEntries[e] < MaxEntries
  /\ LET v == OnEntry(revealVisible[e], b)
     IN /\ revealVisible' = [revealVisible EXCEPT ![e] = v]
        /\ revealMarks' = [revealMarks EXCEPT
                             ![e] = IF v /\ ~revealVisible[e] THEN @ + 1 ELSE @]
  /\ revealInView' = [revealInView EXCEPT ![e] = b]
  /\ revealEntries' = [revealEntries EXCEPT ![e] = IF b THEN @ + 1 ELSE @]
  /\ skillPending' = IF b /\ ElementKind(e) = "skill-bar"
                       THEN skillPending + 1 ELSE skillPending
  /\ UNCHANGED skillWidth
  /\ UNCHANGED <<dbVars, tyVars, pageVars, themeVars, navVars, formVars, modalVars, ty2Vars, menuVars>>

\* A 300 ms timer of animateSkillBar fires, lines 224-226.
SkillTimerFires ==
  /\ skillPending > 0
  /\ skillPending' = skillPending - 1
  /\ skillWidth' = TargetWidth
  /\ UNCHANGED <<revealInView, revealVisible, revealEntries, revealMarks>>
  /\ UNCHANGED <<dbVars, tyVars, pageVars, themeVars, navVars, formVars, modalVars, ty2Vars, menuVars>>

RevealInit ==
  /\ revealInView = [e \in RevealElements |-> FALSE]
  /\ revealVisible = [e \in RevealElements |-> FALSE]
  /\ revealEntries = [e \in RevealElements |-> 0]
  /\ revealMarks = [e \in RevealElements |-> 0]
  /\ skillPending = 0
  /\ skillWidth = NoWidth

----------------------------------------------------------------------------
(* Page initialisation (src/script.js 575-592) *)

Controllers == {"theme", "navigation", "reveal", "form", "modal", "typing"}

ProdTexts ==
  << <<"F","u","l","l"," ","S","t","a","c","k"," ","D","e","v","e","l","o","p","e","r">>,
     <<"U","I","/","U","X"," ","D","e","s","i","g","n","e","r">>,
     <<"C","r","e","a","t","i","v","e"," ","P","r","o","b","l","e","m"," ","S","o","l","v","e","r">>,
     <<"T","e","c","h"," ","E","n","t","h","u","s","i","a","s","t">> >>

DefaultSpeeds == <<DefaultTypeSpeed, DefaultDeleteSpeed, DefaultDelayBetweenTexts>>

\* The DOMContentLoaded handler: the managers are constructed in order; an
\* exception of a constructor ends the handler, so nothing after it is built.
DOMContentLoaded ==
  /\ page = "loading"
  /\ NewThemeManager
  /\ IF ThemeManagerInit(ThemeState, storeFault).threw
       THEN /\ page' = "crashed"
            /\ built' = {}
            /\ NavUntouched
            /\ UNCHANGED tyVars
       ELSE /\ page' = "ready"
            /\ built' = Controllers
            /\ NewNavigationManager
            /\ TypeEffect(TypingFields(ProdTexts, DefaultSpeeds), TRUE)
  /\ UNCHANGED <<formVars, modalVars, revealVars, ty2Vars, menuVars>>

\* The page is loaded anew: a fresh document, the same localStorage.
Reload ==
  /\ page # "loading"
  /\ page' = "loading"
  /\ built' = {}
  /\ bodyClass' = ""
  /\ themeIcon' = "fas fa-moon"
  /\ themeListeners' = 0
  /\ themeTrail' = <<>>
  /\ carried' = lastSetTheme
  /\ ty' = NoTyping
  /\ tyText' = <<>>
  /\ tyTimer' = NoTimer
  /\ tyPrev' = NoTyping
  /\ tyNew' = NoNew
  /\ tyWriter' = 0
  /\ ty2' = NoTyping
  /\ ty2Timer' = NoTimer
  /\ UNCHANGED <<store, storeFault, lastSetTheme, sections, scrollY>>
  /\ dbTimers' = {}
  /\ dbTimeout' = 0
  /\ UNCHANGED <<now, dbWait, dbNextId, dbCalls, dbExecs>>
  /\ formValues' = EmptyForm
  /\ formErrs' = [f \in FieldNames |-> <<>>]
  /\ submitDisabled' = FALSE
  /\ submitLabel' = SendLabel
  /\ formRuns' = <<>>
  /\ formNotices' = 0
  /\ formLast' = NoSubmit
  /\ formDone' = NoDone
  /\ navActive' = HtmlActive
  /\ navbarHidden' = FALSE
  /\ lastScrollTop' = 0
  /\ navSeenY' = -1
  /\ navTops' = <<>>
  /\ modalActive' = FALSE
  /\ modalContent' = NoContent
  /\ bodyOverflow' = ""
  /\ modalLast' = NoModalOp
  /\ revealInView' = [e \in RevealElements |-> FALSE]
  /\ revealVisible' = [e \in RevealElements |-> FALSE]
  /\ revealEntries' = [e \in RevealElements |-> 0]
  /\ revealMarks' = [e \in RevealElements |-> 0]
  /\ skillPending' = 0
  /\ skillWidth' = NoWidth
  /\ hamburgerActive' = FALSE
  /\ navMenuActive' = FALSE
  /\ navClick' = NoClick

PageInit ==
  /\ page = "loading"
  /\ built = {}

----------------------------------------------------------------------------
(* Specifications *)

StoreInit ==
  /\ store = <<>>
  /\ storeFault = "none"

InitDebounce ==
  /\ FormInit
  /\ NavInit
  /\ sections = SectionsOf(DefaultLayout)
  /\ DebounceInit
  /\ dbWait \in 1..MaxWait
  /\ TypingInit
  /\ PageInit
  /\ ModalInit
  /\ RevealInit
  /\ MenuInit
  /\ ThemeInit
  /\ StoreInit

NextDebounce ==
  \/ \E a \in 1..MaxArg : DebouncedCall(a)
  \/ DebounceTimerFires
  \/ TimePasses(1, MaxTime)

SpecDebounce == InitDebounce /\ [][NextDebounce]_vars

InitTyping ==
  /\ FormInit
  /\ NavInit
  /\ sections = SectionsOf(DefaultLayout)
  /\ DebounceInit
  /\ dbWait = ScrollDebounceWait
  /\ TypingInit
  /\ PageInit
  /\ ModalInit
  /\ RevealInit
  /\ MenuInit
  /\ ThemeInit
  /\ StoreInit

NextTyping ==
  \/ \E texts \in TextListsOrEmpty, cfg \in SpeedConfigs : NewTypingAnimation(texts, cfg)
  \/ TypingTimerFires

SpecTyping == InitTyping /\ [][NextTyping]_vars

\* The second object is given a single phrase: its steps then write that phrase's
\* prefixes over whatever the first object wrote.
SecondTexts == {t \in TextLists : Len(t) = 1}

InitTypingTwo == InitTyping

NextTypingTwo ==
  \/ \E texts \in TextLists, cfg \in SpeedConfigs : NewTypingAnimation(texts, cfg)
  \/ TypingTimerFires
  \/ \E texts \in SecondTexts, cfg \in SpeedConfigs : NewSecondTypingAnimation(texts, cfg)
  \/ SecondTimerFires

SpecTypingTwo == InitTypingTwo /\ [][NextTypingTwo]_vars

InitTheme ==
  /\ FormInit
  /\ NavInit
  /\ sections = SectionsOf(DefaultLayout)
  /\ DebounceInit
  /\ dbWait = ScrollDebounceWait
  /\ TypingInit
  /\ PageInit
  /\ ModalInit
  /\ RevealInit
  /\ MenuInit
  /\ ThemeInit
  /\ store \in {<<>>} \cup {<<v>> : v \in StoredValues}
  /\ storeFault \in StoreFaults

NextTheme ==
  \/ DOMContentLoaded
  \/ ThemeToggleClick
  \/ \E f \in StoreFaults : StorageAccessChanges(f)
  \/ Reload

SpecTheme == InitTheme /\ [][NextTheme]_vars

InitNav ==
  /\ FormInit
  /\ NavInit
  /\ sections \in {SectionsOf(l) : l \in Layouts}
  /\ DebounceInit
  /\ dbWait = ScrollDebounceWait
  /\ TypingInit
  /\ PageInit
  /\ ModalInit
  /\ RevealInit
  /\ MenuInit
  /\ ThemeInit
  /\ StoreInit

NextNav ==
  \/ DOMContentLoaded
  \/ \E y \in ScrollPositions : WindowScroll(y)
  \/ ScrollTimerFires
  \/ \E d \in NavTimeSteps : TimePasses(d, MaxNavTime)

SpecNav == InitNav /\ [][NextNav]_vars

InitForm ==
  /\ FormInit
  /\ NavInit
  /\ sections = SectionsOf(DefaultLayout)
  /\ DebounceInit
  /\ dbWait = ScrollDebounceWait
  /\ TypingInit
  /\ PageInit
  /\ ModalInit
  /\ RevealInit
  /\ MenuInit
  /\ ThemeInit
  /\ StoreInit

NextForm ==
  \/ DOMContentLoaded
  \/ \E f \in FieldNames : \E v \in SamplesOf(f) : UserInput(f, v)
  \/ \E f \in FieldNames : Blur(f)
  \/ SubmitEvent
  \/ SubmitWhileDisabled
  \/ SubmissionCompletes
  \/ NoticeExpires

SpecForm == InitForm /\ [][NextForm]_vars

\* The page with its usual two sections.
InitMenu == InitForm

NextMenu ==
  \/ DOMContentLoaded
  \/ HamburgerClick
  \/ \E k \in Links : LinkClick(k)
  \/ ScrollTimerFires
  \/ \E d \in NavTimeSteps : TimePasses(d, MaxNavTime)

SpecMenu == InitMenu /\ [][NextMenu]_vars

\* The theme toggle is part of this specification because it writes the class
\* of document.body, the element whose overflow style the modal writes.
InitModal == InitForm

NextModal ==
  \/ DOMContentLoaded
  \/ \E id \in ModalIds : OpenProjectModal(id)
  \/ CloseProjectModal
  \/ \E key \in ModalKeys : KeyDown(key)
  \/ \E target \in ClickTargets : ModalClick(target)
  \/ ThemeToggleClick

SpecModal == InitModal /\ [][NextModal]_vars

InitReveal == InitForm

NextReveal ==
  \/ DOMContentLoaded
  \/ \E e \in RevealElements, b \in BOOLEAN : IntersectionChange(e, b)
  \/ SkillTimerFires

SpecReveal == InitReveal /\ [][NextReveal]_vars

\* The 2000 ms timer of a pending submission is a browser timer: it fires.
SpecFormFair == SpecForm /\ WF_vars(SubmissionCompletes)

----------------------------------------------------------------------------
(* Claims about debounce *)

Gap(i) == dbCalls[i + 1].at - dbCalls[i].at

\* Calls i..j are a maximal run of calls whose consecutive gaps are below wait.
IsBurst(i, j) ==
  /\ i <= j
  /\ i = 1 \/ Gap(i - 1) >= dbWait
  /\ j = Len(dbCalls) \/ Gap(j) >= dbWait
  /\ \A k \in i..(j - 1) : Gap(k) < dbWait

\* The executions of func that happened after call i and before call j + 1.
ExecsOf(i, j) == {n \in 1..Len(dbExecs) : dbExecs[n].after \in i..j}

\* wait has elapsed after call j, or a later call has been made.
BurstOver(j) == j < Len(dbCalls) \/ now > dbCalls[j].at + dbWait

\* C1: N >= 1 calls of the debounced function with every gap below wait lead to
\* exactly one execution of func, with the arguments of the last of the N calls,
\* at the instant wait after that last call; no execution happens before that
\* instant and none carries the arguments of an earlier call of the run.
C1_DebounceTrailing ==
  \A i \in 1..Len(dbCalls) : \A j \in i..Len(dbCalls) :
    IsBurst(i, j) =>
      /\ \A n \in ExecsOf(i, j) :
           /\ dbExecs[n].after = j
           /\ dbExecs[n].args = dbCalls[j].args
           /\ dbExecs[n].at = dbCalls[j].at + dbWait
      /\ Cardinality(ExecsOf(i, j)) <= 1
      /\ BurstOver(j) => Cardinality(ExecsOf(i, j)) = 1
      /\ now < dbCalls[j].at + dbWait => ExecsOf(i, j) = {}

\* A run of three calls with different first and last arguments has been executed.
C1_Witness ==
  \E i \in 1..Len(dbCalls) : \E j \in (i + 2)..Len(dbCalls) :
    /\ IsBurst(i, j)
    /\ dbCalls[i].args # dbCalls[j].args
    /\ dbCalls[j].at > dbCalls[i].at
    /\ Cardinality(ExecsOf(i, j)) = 1

----------------------------------------------------------------------------
(* Claims about the typing animation *)

\* C2: for any non-empty list of phrases, after any number of type() steps the
\* character index lies in 0..length of the current phrase and the phrase index
\* lies in 0..number of phrases - 1.
C2_IndicesInRange ==
  ty.built =>
    /\ 0 <= ty.currentCharIndex
    /\ ty.currentCharIndex <= Len(CurrentText(ty))
    /\ 0 <= ty.currentTextIndex
    /\ ty.currentTextIndex < Len(ty.texts)

\* C3: for each phrase the count starts at 0 and rises by one per step until it
\* equals the phrase length, where the engine turns to Deleting and schedules the
\* next step after delayBetweenTexts; it then falls by one per step, each scheduled
\* after deleteSpeed, until it is 0, where the engine turns back to Typing; the
\* rendered text is always the prefix of the current phrase of that length.
C3_TypeThenDelete ==
  ty.built =>
    LET phrase == CurrentText(tyPrev)
        n == ty.currentCharIndex
    IN /\ tyPrev.currentTextIndex # ty.currentTextIndex => n = 0
       /\ Len(tyText) = n
       /\ tyText = SubSeq(phrase, 1, n)
       /\ ~tyPrev.isDeleting =>
            /\ n = tyPrev.currentCharIndex + 1
            /\ n <= Len(phrase)
            /\ ty.isDeleting <=> n = Len(phrase)
            /\ tyTimer = IF n = Len(phrase) THEN ty.delayBetweenTexts ELSE ty.typeSpeed
       /\ tyPrev.isDeleting =>
            /\ n = tyPrev.currentCharIndex - 1
            /\ n >= 0
            /\ ty.isDeleting <=> n > 0
            /\ tyTimer = ty.deleteSpeed

\* C4: the phrase index changes only on the step taken while Deleting that brings
\* the count to 0; on that step it becomes (index + 1) modulo the number of
\* phrases, and on every other step it is unchanged.
C4_IndexAdvance ==
  ty.built =>
    ty.currentTextIndex =
      IF tyPrev.isDeleting /\ ty.currentCharIndex = 0
        THEN (tyPrev.currentTextIndex + 1) % Len(ty.texts)
        ELSE tyPrev.currentTextIndex

\* The last of several phrases has been deleted and the index is back at 0.
C4_Witness ==
  /\ ty.built
  /\ Len(ty.texts) >= 2
  /\ tyPrev.isDeleting
  /\ tyPrev.currentTextIndex = Len(ty.texts) - 1
  /\ ty.currentTextIndex = 0
  /\ ty.currentCharIndex = 0

----------------------------------------------------------------------------
(* Claims about the theme manager *)

\* C5: after setTheme(t) with t light or dark, a fresh ThemeManager initialised
\* on a reloaded page against the same store applies theme t.
C5_ThemeRoundTrip ==
  (page = "ready" /\ carried \in {"light", "dark"} /\ Len(themeTrail) = 1)
    => AppliedTheme(bodyClass) = carried

\* A page reloaded after setTheme("dark") has come up dark.
C5_Witness ==
  /\ page = "ready"
  /\ carried = "dark"
  /\ Len(themeTrail) = 1
  /\ bodyClass = "dark-theme"

\* C6: once the ThemeManager is initialised, one click on the toggle changes the
\* applied theme to the other of light and dark, and two consecutive clicks bring
\* it back to what it was before them.
C6_ToggleInvolution ==
  themeListeners > 0 =>
    /\ Len(themeTrail) >= 1
    /\ \A k \in 1..Len(themeTrail) : themeTrail[k] \in {"light", "dark"}
    /\ AppliedTheme(bodyClass) = themeTrail[Len(themeTrail)]
    /\ \A k \in 1..(Len(themeTrail) - 1) : themeTrail[k + 1] # themeTrail[k]
    /\ Len(themeTrail) >= 3 => themeTrail[Len(themeTrail)] = themeTrail[Len(themeTrail) - 2]

\* Two consecutive clicks on a dark page have been handled.
C6_Witness ==
  /\ themeListeners > 0
  /\ Len(themeTrail) = 3
  /\ themeTrail[1] = "dark"
  /\ bodyClass = "dark-theme"

\* C7: with the preference store inaccessible, initialisation does not throw: the
\* DOMContentLoaded handler completes and constructs every controller, and the
\* theme applied at start-up is the default, light.
C7_StoreFailureTolerated ==
  page # "loading" =>
    /\ page = "ready"
    /\ built = Controllers
    /\ (storeFault # "none" /\ Len(themeTrail) = 1) => AppliedTheme(bodyClass) = "light"

----------------------------------------------------------------------------
(* Claims about the navigation manager *)

\* The sections whose range holds offset y plus the 100px lookahead.
Matching(y) ==
  {i \in 1..Len(sections) :
     sections[i].top <= y + 100 /\ y + 100 < sections[i].top + sections[i].height}

LastOf(S) == CHOOSE i \in S : \A j \in S : j <= i

\* C8: after a run of updateActiveLink at a scroll offset for which at least one
\* section matches, a nav link is active exactly when its href targets the last
\* matching section in document order.
C8_ActiveLinkIsLastMatch ==
  (navSeenY >= 0 /\ Matching(navSeenY) # {}) =>
    \A k \in Links :
      navActive[k] <=> Href(k) = sections[LastOf(Matching(navSeenY))].id

\* Sections at 0 and 500, both 500 high, scrolled to 600: the handler has made the
\* second link active and the first inactive.
C8_Witness ==
  /\ sections = SectionsOf(DefaultLayout)
  /\ navSeenY = 600
  /\ lastScrollTop = 600
  /\ navActive[2]
  /\ ~navActive[1]

\* Two overlapping sections both match and the later one's link is the active one.
C8_WitnessOverlap ==
  /\ Cardinality(Matching(navSeenY)) = 2
  /\ navSeenY >= 0
  /\ navActive[2]
  /\ ~navActive[1]

----------------------------------------------------------------------------
(* Claims about the contact form *)

NonBlank(v) == {i \in 1..Len(v) : v[i] # " "}

FirstOf(S) == CHOOSE i \in S : \A j \in S : i <= j

\* v without its leading and trailing blanks.
Stripped(v) ==
  IF NonBlank(v) = {} THEN <<>> ELSE SubSeq(v, FirstOf(NonBlank(v)), LastOf(NonBlank(v)))

\* local@domain.tld: one "@" with a non-empty local part before it, no blank, and
\* after the "@" a dot with at least one character on each side.
LooksLikeEmail(v) ==
  LET ats == {i \in 1..Len(v) : v[i] = "@"}
  IN /\ Cardinality(ats) = 1
     /\ NonBlank(v) = 1..Len(v)
     /\ FirstOf(ats) > 1
     /\ \E d \in (FirstOf(ats) + 2)..(Len(v) - 1) : v[d] = "."

RuleHolds(f, v) ==
  CASE f = "name" -> Len(Stripped(v)) >= 2
    [] f = "email" -> LooksLikeEmail(Stripped(v))
    [] f = "subject" -> Len(Stripped(v)) >= 5
    [] f = "message" -> Len(Stripped(v)) >= 10

AllRulesHold(values) == \A f \in FieldNames : RuleHolds(f, values[f])

\* C9: validateForm checks all four fields on every call and returns true exactly
\* when the trimmed name has 2 characters or more, the (trimmed) email has the
\* local@domain.tld shape, the trimmed subject has 5 or more and the trimmed
\* message 10 or more; afterwards every failing field shows an error message and
\* no passing field shows one.
C9_ValidateForm ==
  formLast.seen =>
    /\ formLast.valid <=> AllRulesHold(formLast.values)
    /\ \A f \in FieldNames :
         (formLast.errs[f] # <<>>) <=> ~RuleHolds(f, formLast.values[f])
    /\ formErrs = formLast.errs

\* The submit of name "A", email "bad", subject "hi", message "short" has shown
\* four errors.
C9_Witness ==
  /\ formLast.seen
  /\ formLast.values = [name |-> <<"A">>, email |-> <<"b","a","d">>,
                        subject |-> <<"h","i">>, message |-> <<"s","h","o","r","t">>]
  /\ \A f \in FieldNames : formErrs[f] # <<>>
  /\ ~formLast.valid

\* The submit of the four valid example values has shown no error and has started
\* the submission.
C9_WitnessValid ==
  /\ formLast.seen
  /\ formLast.values = [name |-> <<"A","l">>, email |-> <<"a","@","b",".","c","o">>,
                        subject |-> <<"H","e","l","l","o"," ","t","h","e","r","e">>,
                        message |-> <<"T","h","i","s"," ","i","s"," ","l","o","n","g"," ","e","n","o","u","g","h">>]
  /\ \A f \in FieldNames : formErrs[f] = <<>>
  /\ formLast.valid

\* C10: the form is submitting only as the result of a submit event at which all
\* four fields passed validation; a submit event with a failing field starts no
\* submission, leaves the submit control enabled with its label and leaves the
\* field values unchanged.
C10_SubmitOnlyWhenValid ==
  /\ \A k \in 1..Len(formRuns) : AllRulesHold(formRuns[k].data)
  /\ submitDisabled => formRuns # <<>>
  /\ (formLast.seen /\ formLast.started) => AllRulesHold(formLast.values)
  /\ (formLast.seen /\ ~AllRulesHold(formLast.values)) =>
       /\ ~formLast.started
       /\ formRuns = <<>>
       /\ ~formLast.disabledAfter
       /\ ~submitDisabled
       /\ formLast.labelAfter = SendLabel
       /\ formLast.valuesAfter = formLast.values
       /\ formValues = formLast.values

\* A submit event with only the name failing has been handled and nothing started.
C10_Witness ==
  /\ formLast.seen
  /\ ~RuleHolds("name", formLast.values["name"])
  /\ \A f \in FieldNames \ {"name"} : RuleHolds(f, formLast.values[f])
  /\ formRuns = <<>>
  /\ ~submitDisabled

----------------------------------------------------------------------------
(* C11-C13: the submission lifecycle *)

\* C11: at most one submission is in flight at any time: while one is pending
\* the submit control is disabled, an attempt to submit again starts nothing,
\* and no second run is ever pending beside the first.
C11_OneSubmissionInFlight ==
  /\ Len(formRuns) <= 1
  /\ formRuns # <<>> => submitDisabled /\ submitLabel = SendingLabel
  /\ formLast.blocked => ~formLast.started /\ Len(formRuns) = 1

C11_Witness ==
  /\ formLast.blocked
  /\ Len(formRuns) = 1
  /\ AllRulesHold(Head(formRuns).data)

\* C12: every submission that started eventually completes, and whenever none
\* is pending (in particular right after one completed) the submit control is
\* enabled and shows its original label.
C12_SubmissionCompletes ==
  /\ [](formRuns # <<>> => <>(formRuns = <<>>))
  /\ [](formRuns = <<>> => ~submitDisabled /\ submitLabel = SendLabel)
  /\ [](\A i \in 1..Len(formRuns) : \A o \in {"resolved", "rejected"} :
          LET f == SubmitFormFinish(formRuns[i], o)
          IN ~f.disabled /\ f.label = formRuns[i].originalText /\ f.label = SendLabel)

C12_Witness ==
  /\ formDone.seen
  /\ formRuns = <<>>
  /\ ~submitDisabled
  /\ submitLabel = SendLabel

\* C13: a pending submission may settle either way: with success (a success
\* notice and the form reset) or with failure (an error notice, the form kept).
C13_BothOutcomesReachable ==
  /\ formRuns # <<>> =>
       /\ ENABLED SubmissionSettles("resolved")
       /\ ENABLED SubmissionSettles("rejected")
  /\ (formDone.seen /\ formDone.outcome = "resolved") =>
       formDone.notice = "success" /\ formDone.reset /\ formValues = EmptyForm
  /\ (formDone.seen /\ formDone.outcome = "rejected") =>
       formDone.notice = "error" /\ ~formDone.reset

----------------------------------------------------------------------------
(* C14-C15: the project modal *)

\* C14: openModal with an id that is not in the catalog is a no-op: the open
\* flag, the rendered content and the scroll lock are unchanged and nothing is
\* thrown.
C14_UnknownIdIsNoOp ==
  (modalLast.op = "open" /\ modalLast.id \notin CatalogIds) =>
    /\ ~modalLast.threw
    /\ ModalState = modalLast.before

\* C15: after any sequence of openModal, closeModal, key presses and clicks the
\* page scroll is suspended exactly when the modal is open; a close leaves the
\* modal closed and the scroll restored, an open of a catalog id leaves it open.
C15_ScrollLockedIffOpen ==
  /\ (bodyOverflow = "hidden") <=> modalActive
  /\ bodyOverflow \in {"", "hidden"}
  /\ modalLast.op = "close" => ~modalActive /\ bodyOverflow = ""
  /\ (modalLast.op = "open" /\ modalLast.id \in CatalogIds) =>
       modalActive /\ modalContent = modalLast.id

C15_Witness ==
  /\ modalLast.op = "close"
  /\ modalLast.before.active
  /\ modalLast.before.overflow = "hidden"
  /\ ~modalActive
  /\ bodyOverflow = ""
  /\ modalContent = "1"

----------------------------------------------------------------------------
(* C16: the reveal controller *)

\* C16: an observed element becomes visible exactly once, on its first entry
\* into view, and is never un-marked afterwards, however often it leaves and
\* re-enters; an element that never entered is not visible.
C16_VisibleOnceAndForAll ==
  /\ [](\A e \in RevealElements :
          /\ revealVisible[e] <=> revealEntries[e] > 0
          /\ revealMarks[e] = IF revealEntries[e] > 0 THEN 1 ELSE 0)
  /\ [][\A e \in RevealElements : revealVisible[e] => revealVisible'[e]]_vars

C16_Witness ==
  \E e \in RevealElements :
    /\ revealEntries[e] = 3
    /\ ~revealInView[e]
    /\ revealVisible[e]
    /\ revealMarks[e] = 1

----------------------------------------------------------------------------
(* C17-C19: the typing animation's edges *)

\* C17: constructing a TypingAnimation with an empty list of phrases throws
\* nothing, renders nothing and changes nothing.
C17_EmptyListGuarded ==
  (tyNew.called /\ tyNew.empty) =>
    /\ ~tyNew.threw
    /\ ~ty.built
    /\ tyText = <<>>
    /\ tyTimer = NoTimer

\* The steps left until the engine leaves its current mode: characters still to
\* type while Typing, characters still to delete while Deleting.
StepsToTurn(t) ==
  IF t.isDeleting THEN t.currentCharIndex
  ELSE Len(CurrentText(t)) - t.currentCharIndex

\* C18: the engine never stops and never gets stuck. Stated on finite runs: a
\* next step is always scheduled, and the end of the current mode is always a
\* positive number of steps ahead, so that every phrase is typed in full and
\* then deleted in full, again and again, as the timers fire.
C18_NeverStuck ==
  ty.built =>
    /\ tyTimer # NoTimer
    /\ StepsToTurn(ty) >= 1
    /\ StepsToTurn(ty) <= Len(CurrentText(ty))

\* C19: a second TypingAnimation constructed for the same element supersedes the
\* first: from then on the first has no step scheduled and only the second
\* writes the element's text.
C19_SecondSupersedesFirst ==
  ty2.built =>
    /\ tyTimer = NoTimer
    /\ tyWriter = 2

----------------------------------------------------------------------------
(* C20: nav link clicks and the mobile menu *)

\* C20: a click on a nav link leaves the hamburger and the nav menu without
\* their active marker and throws nothing, whatever the link's href; when the
\* href names no element the page is scrolled nowhere.
C20_LinkClickClosesMenu ==
  navClick.seen =>
    /\ ~hamburgerActive
    /\ ~navMenuActive
    /\ ~navClick.threw
    /\ navClick.found = 0 => scrollY = navClick.scrollBefore

----------------------------------------------------------------------------
(* C21-C22: the scroll handler's frame and the navbar *)

\* C21: when updateActiveLink runs, from the constructor or from the scroll
\* handler, at an offset for which no section matches, every nav link keeps the
\* active marker it had before the call.
C21_NoMatchKeepsLinks ==
  [][((ScrollTimerFires \/ DOMContentLoaded) /\ Matching(scrollY) = {})
       => navActive' = navActive]_vars

\* Sections from 0 to 500 and from 500 to 1000: the second link was made active
\* at an offset inside the second section and is still the active one after the
\* handler ran at 1450, below both sections.
C21_Witness ==
  /\ sections = SectionsOf(DefaultLayout)
  /\ navSeenY = 1450
  /\ lastScrollTop = 1450
  /\ Matching(navSeenY) = {}
  /\ navActive[2]
  /\ ~navActive[1]

\* The offset recorded by the handler run before the latest one: 0 when there
\* was none, else the offset that run saw, clamped below at 0.
RecordedBefore == IF Len(navTops) < 2 THEN 0 ELSE Max(0, navTops[1])

\* C22: after a run of the scroll handler the navbar is hidden exactly when the
\* offset this run saw is greater than the offset recorded by the previous run
\* and greater than 100; the recorded offset is the offset this run saw, clamped
\* below at 0; before any run the navbar is shown and the recorded offset is 0.
C22_NavbarHiddenOnScrollDown ==
  IF navTops = <<>>
    THEN ~navbarHidden /\ lastScrollTop = 0
    ELSE LET seen == navTops[Len(navTops)]
         IN /\ navbarHidden <=> (seen > RecordedBefore /\ seen > 100)
            /\ lastScrollTop = Max(0, seen)
            /\ lastScrollTop >= 0

\* Two scroll events were coalesced into one handler run, which saw 350: the
\* navbar is hidden and 350 is the recorded offset.
C22_Witness ==
  /\ dbNextId = 3
  /\ dbTimers = {}
  /\ navTops = <<350>>
  /\ navbarHidden
  /\ lastScrollTop = 350

\* The handler ran at 600 and then at -50: the navbar is shown and 0 is recorded.
C22_WitnessClamped ==
  /\ navTops = <<600, -50>>
  /\ ~navbarHidden
  /\ lastScrollTop = 0

----------------------------------------------------------------------------
(* C23-C24: dismissing the modal *)

ModalClosed(st) == [st EXCEPT !.active = FALSE, !.overflow = ""]

\* C23: a click on the backdrop itself and an Escape press while the modal is
\* open dismiss it; an Escape press while it is closed, any other key and a
\* click inside the content leave the modal and the scroll lock as they were;
\* and the modal goes from open to closed by nothing but a close call, an Escape
\* press or a backdrop click.
C23_DismissalTriggers ==
  /\ [](/\ (modalLast.op = "click" /\ modalLast.id = "overlay") =>
             ~modalActive /\ ModalState = ModalClosed(modalLast.before)
        /\ (modalLast.op = "key" /\ modalLast.id = "Escape" /\ modalLast.before.active) =>
             ~modalActive /\ ModalState = ModalClosed(modalLast.before)
        /\ (modalLast.op = "key" /\ modalLast.id = "Escape" /\ ~modalLast.before.active) =>
             ModalState = modalLast.before
        /\ (modalLast.op = "key" /\ modalLast.id # "Escape") =>
             ModalState = modalLast.before
        /\ (modalLast.op = "click" /\ modalLast.id = "content") =>
             ModalState = modalLast.before)
  /\ [][(modalActive /\ ~modalActive') =>
          \/ CloseProjectModal
          \/ KeyDown("Escape")
          \/ ModalClick("overlay")]_vars

\* A click inside the content of the open modal has left it open and locked.
C23_Witness ==
  /\ modalLast.op = "click"
  /\ modalLast.id = "content"
  /\ modalLast.before.active
  /\ modalActive
  /\ bodyOverflow = "hidden"

\* A backdrop click has closed the open modal.
C23_WitnessBackdrop ==
  /\ modalLast.op = "click"
  /\ modalLast.id = "overlay"
  /\ modalLast.before.active
  /\ ~modalActive
  /\ bodyOverflow = ""

\* C24: the modal's state is cleared on close: after closeModal nothing of a
\* project rendered earlier remains as the modal's content, and the modal has a
\* current project only while it is open.
C24_ClearedOnClose ==
  /\ modalLast.op = "close" => modalContent = NoContent
  /\ ~modalActive => modalContent = NoContent
  /\ modalActive => modalContent \in CatalogIds

----------------------------------------------------------------------------
(* C25: the stored preference *)

\* The latest setTheme call completed: the applied theme is the one it was
\* called with (a call that throws at setItem has changed the class only).
LastSetThemeCompleted ==
  /\ themeListeners > 0
  /\ lastSetTheme # "none"
  /\ AppliedTheme(bodyClass) = (IF lastSetTheme = "dark" THEN "dark" ELSE "light")

\* C25: once the ThemeManager is initialised, and after any toggles, whatever
\* the store held at start-up, the stored value is "light" or "dark" and is
\* the theme applied to the document.
C25_StoredIsAppliedTheme ==
  LastSetThemeCompleted =>
    /\ store # <<>>
    /\ store[1] \in {"light", "dark"}
    /\ store[1] = AppliedTheme(bodyClass)

====
